---- MODULE Spec2Model ----
(***************************************************************************)
(* Model of testutil/integration/evmos/network/setup.go: the helpers that  *)
(* assemble validators, signers, accounts, balances and the per-module     *)
(* genesis sections of an in-memory Evmos test network.                    *)
(*                                                                         *)
(* Every function of the file is one action.  The caller's genesis map is  *)
(* the variable genesisState (a Go map: its DOMAIN is the set of keys      *)
(* present); `before` is the same map as it was when the last call began;  *)
(* op / args / ret record the last call; swallowed records whether a       *)
(* non-nil error value was ever dropped with `_`.                           *)
(*                                                                         *)
(* Representation.  Denominations are small integers, in their            *)
(* lexicographic order.  A private key is [type, seed]; a public key is    *)
(* [type, key]; an address is an integer (the truncated hash of the key).  *)
(* String renderings are tagged records: [hex |-> a] for                   *)
(* crypto.Address.String(), [acc |-> a] for AccAddress.String(),           *)
(* [valoper |-> a] for ValAddress.String().                                *)
(***************************************************************************)
EXTENDS Integers, Sequences, FiniteSets, TLC

VARIABLES genesisState, before, op, args, ret, swallowed

vars == <<genesisState, before, op, args, ret, swallowed>>

(***************************************************************************)
(* Bounds of the model.                                                    *)
(***************************************************************************)
MaxValidators == 2
MaxAccounts == 2
MaxBalances == 2

\* Denominations (in lexicographic order), coin amounts, account addresses.
Denoms == {1, 2}
Amounts == 0..2
AccAddresses == {1, 2}

(***************************************************************************)
(* Generic helpers: Go maps and slices.                                    *)
(***************************************************************************)
EmptyMap == [k \in {} |-> 0]

MapSet(m, k, v) == [x \in (DOMAIN m) \cup {k} |-> IF x = k THEN v ELSE m[x]]

SeqsUpTo(S, n) == UNION {[1..k -> S] : k \in 0..n}

NoError == [kind |-> "nil"]

(***************************************************************************)
(* Keys and addresses (cometbft crypto, cosmos-sdk testutil/mock).         *)
(***************************************************************************)
KeyTypes == {"ed25519", "secp256k1", "sr25519"}

\* ed25519.GenPrivKey(): 32 fresh random bytes; distinct calls give distinct seeds.
KeySeeds == 1..(MaxValidators + 1)

\* mock.NewPV(): a private validator holding a freshly generated ed25519 key.
NewPV(seed) == [PrivKey |-> [type |-> "ed25519", seed |-> seed]]

\* PrivKey.PubKey(): the public key derived from the private key.
PubKeyOf(priv) == [type |-> priv.type, key |-> 2 * priv.seed + 1]

\* PV.GetPubKey(): converts the sdk key to the consensus key type; the
\* conversion knows ed25519 and secp256k1 only.
GetPubKey(pv) ==
    LET pk == PubKeyOf(pv.PrivKey)
    IN  IF pk.type \in {"ed25519", "secp256k1"}
        THEN [pubKey |-> pk, err |-> NoError]
        ELSE [pubKey |-> pk, err |-> [kind |-> "convert", key |-> pk]]

\* PubKey.Address(): truncated hash of the key bytes.
AddressOf(pubKey) == (pubKey.key * 7) % 23

\* crypto.Address.String()
HexString(a) == [hex |-> a]

\* sdktypes.AccAddress.String()
AccString(a) == [acc |-> a]

\* sdktypes.ValAddress(addr).String()
ValString(a) == [valoper |-> a]

(***************************************************************************)
(* createValidatorSetAndSigners                                            *)
(***************************************************************************)
\* cmttypes.NewValidator(pubKey, votingPower)
NewValidator(pubKey, power) ==
    [Address |-> AddressOf(pubKey), PubKey |-> pubKey, VotingPower |-> power]

\* cmttypes.NewValidatorSet: the validators ordered by voting power
\* (descending), then by address (ascending).
ValBefore(a, b) ==
    \/ a.VotingPower > b.VotingPower
    \/ a.VotingPower = b.VotingPower /\ a.Address < b.Address

RECURSIVE SortValidators(_)
SortValidators(S) ==
    IF S = {} THEN <<>>
    ELSE LET first == CHOOSE v \in S : \A w \in S \ {v} : ValBefore(v, w)
         IN  <<first>> \o SortValidators(S \ {first})

NewValidatorSet(vals) ==
    [Validators |-> SortValidators({vals[i] : i \in DOMAIN vals})]

\* The loop of createValidatorSetAndSigners, iteration i of n, over the
\* keys the generator hands out (seeds[i] at iteration i).
RECURSIVE FactoryLoop(_, _, _, _, _, _)
FactoryLoop(i, n, seeds, tmValidators, signers, dropped) ==
    IF i > n THEN [tmValidators |-> tmValidators, signers |-> signers, dropped |-> dropped]
    ELSE LET privVal == NewPV(seeds[i])
             got == GetPubKey(privVal)
             validator == NewValidator(got.pubKey, 1)
         IN  FactoryLoop(i + 1, n, seeds,
                         Append(tmValidators, validator),
                         MapSet(signers, HexString(AddressOf(got.pubKey)), privVal),
                         dropped \/ got.err # NoError)

\* The loop bound off by one: one validator too few.
createValidatorSetAndSignersShort(n, seeds) ==
    LET r == FactoryLoop(2, n, seeds, <<>>, EmptyMap, FALSE)
    IN  [valSet |-> NewValidatorSet(r.tmValidators),
         signers |-> r.signers,
         dropped |-> r.dropped]

createValidatorSetAndSignersFn(n, seeds) ==
    LET r == FactoryLoop(1, n, seeds, <<>>, EmptyMap, FALSE)
    IN  [valSet |-> NewValidatorSet(r.tmValidators),
         signers |-> r.signers,
         dropped |-> r.dropped]

\* Injective sequences of n seeds: what n calls of the key generator return.
FreshSeeds(n) == {s \in [1..n -> KeySeeds] : \A i, j \in 1..n : i # j => s[i] # s[j]}

(***************************************************************************)
(* createGenesisAccounts, createBalances                                   *)
(***************************************************************************)
\* authtypes.NewBaseAccount(acc, nil, 0, 0)
NewBaseAccount(acc, accountNumber, sequence) ==
    [Address |-> AccString(acc), PubKey |-> "nil",
     AccountNumber |-> accountNumber, Sequence |-> sequence]

createGenesisAccountsFn(accounts) ==
    [i \in DOMAIN accounts |-> NewBaseAccount(accounts[i], 0, 0)]

\* sdktypes.NewCoins(coin): the sanitized coin set of one coin (a zero coin
\* is removed).
NewCoins(coin) == IF coin.Amount = 0 THEN <<>> ELSE <<coin>>

createBalancesFn(accounts, coin) ==
    [i \in DOMAIN accounts |->
        [Address |-> AccString(accounts[i]), Coins |-> NewCoins(coin)]]

(***************************************************************************)
(* sdktypes.Coins: sequences of [Denom, Amount] sorted by Denom.           *)
(***************************************************************************)
RECURSIVE SortCoins(_)
SortCoins(S) ==
    IF S = {} THEN <<>>
    ELSE LET first == CHOOSE c \in S : \A d \in S : c.Denom <= d.Denom
         IN  <<first>> \o SortCoins(S \ {first})

RECURSIVE SumAmounts(_, _)
SumAmounts(coins, denom) ==
    IF coins = <<>> THEN 0
    ELSE (IF Head(coins).Denom = denom THEN Head(coins).Amount ELSE 0)
         + SumAmounts(Tail(coins), denom)

\* Coins.Add(coinsB...): the amounts of both operands coalesced per
\* denomination, zero results dropped, the result sorted.
CoinsAdd(coins, coinsB) ==
    LET all == coins \o coinsB
        denoms == {all[i].Denom : i \in DOMAIN all}
        combo == {[Denom |-> d, Amount |-> SumAmounts(all, d)] : d \in denoms}
    IN  SortCoins({c \in combo : c.Amount # 0})

\* Coins.AmountOf(denom)
AmountOf(coins, denom) ==
    IF \E i \in DOMAIN coins : coins[i].Denom = denom
    THEN coins[CHOOSE i \in DOMAIN coins : coins[i].Denom = denom].Amount
    ELSE 0

(***************************************************************************)
(* calculateTotalSupply, addBondedModuleAccountToFundedBalances            *)
(***************************************************************************)
RECURSIVE TotalSupplyLoop(_, _)
TotalSupplyLoop(balances, totalSupply) ==
    IF balances = <<>> THEN totalSupply
    ELSE TotalSupplyLoop(Tail(balances), CoinsAdd(totalSupply, Head(balances).Coins))

\* The result of Coins.Add dropped instead of assigned: the total stays empty.
calculateTotalSupplyUnassigned(fundedAccountsBalances) == <<>>

calculateTotalSupplyFn(fundedAccountsBalances) ==
    TotalSupplyLoop(fundedAccountsBalances, <<>>)

\* authtypes.NewModuleAddress(stakingtypes.BondedPoolName).String()
BondedPoolAddress == [module |-> "bonded_tokens_pool"]

\* The bonded-pool entry put first instead of last.
addBondedModuleAccountPrepended(fundedAccountsBalances, totalBonded) ==
    <<[Address |-> BondedPoolAddress, Coins |-> <<totalBonded>>]>>
        \o fundedAccountsBalances

addBondedModuleAccountToFundedBalancesFn(fundedAccountsBalances, totalBonded) ==
    Append(fundedAccountsBalances,
           [Address |-> BondedPoolAddress, Coins |-> <<totalBonded>>])

(***************************************************************************)
(* createStakingValidator(s), createDelegations                            *)
(***************************************************************************)
LegacyZeroDec == [dec |-> 0]

LegacyOneDec == [dec |-> 1]

NilKey == [type |-> "nil"]

\* cryptocodec.FromTmPubKeyInterface: ed25519 and secp256k1 keys convert,
\* every other key type is an error.
FromTmPubKeyInterface(tmPk) ==
    IF tmPk.type \in {"ed25519", "secp256k1"}
    THEN [pk |-> tmPk, err |-> NoError]
    ELSE [pk |-> NilKey, err |-> [kind |-> "convert", key |-> tmPk]]

\* codectypes.NewAnyWithValue: packs a non-nil message with its type URL.
NewAnyWithValue(pk) ==
    IF pk = NilKey
    THEN [any |-> NilKey, err |-> [kind |-> "pack"]]
    ELSE [any |-> [typeUrl |-> pk.type, value |-> pk], err |-> NoError]

\* stakingtypes.NewCommission(rate, maxRate, maxChangeRate)
NewCommission(rate, maxRate, maxChangeRate) ==
    [Rate |-> rate, MaxRate |-> maxRate, MaxChangeRate |-> maxChangeRate]

EmptyValidator == [empty |-> TRUE]

\* The conversion error dropped with `_`: the nil key reaches the packing.
createStakingValidatorDropsError(val, bondedAmt) ==
    LET conv == FromTmPubKeyInterface(val.PubKey)
        packed == NewAnyWithValue(conv.pk)
    IN  IF packed.err # NoError THEN [validator |-> EmptyValidator, err |-> packed.err]
        ELSE [validator |->
                [OperatorAddress |-> ValString(val.Address),
                 ConsensusPubkey |-> packed.any,
                 Jailed |-> FALSE,
                 Status |-> "BOND_STATUS_BONDED",
                 Tokens |-> bondedAmt,
                 DelegatorShares |-> LegacyOneDec,
                 UnbondingHeight |-> 0,
                 UnbondingTime |-> 0,
                 Commission |-> NewCommission(LegacyZeroDec, LegacyZeroDec, LegacyZeroDec),
                 MinSelfDelegation |-> 0],
              err |-> NoError]

createStakingValidator(val, bondedAmt) ==
    LET conv == FromTmPubKeyInterface(val.PubKey)
        packed == NewAnyWithValue(conv.pk)
    IN  IF conv.err # NoError THEN [validator |-> EmptyValidator, err |-> conv.err]
        ELSE IF packed.err # NoError THEN [validator |-> EmptyValidator, err |-> packed.err]
        ELSE [validator |->
                [OperatorAddress |-> ValString(val.Address),
                 ConsensusPubkey |-> packed.any,
                 Jailed |-> FALSE,
                 Status |-> "BOND_STATUS_BONDED",
                 Tokens |-> bondedAmt,
                 DelegatorShares |-> LegacyOneDec,
                 UnbondingHeight |-> 0,
                 UnbondingTime |-> 0,
                 Commission |-> NewCommission(LegacyZeroDec, LegacyZeroDec, LegacyZeroDec),
                 MinSelfDelegation |-> 0],
              err |-> NoError]

RECURSIVE StakingValidatorsLoop(_, _, _)
StakingValidatorsLoop(tmValidators, bondedAmt, stakingValidators) ==
    IF tmValidators = <<>>
    THEN [val |-> stakingValidators, isNil |-> FALSE, err |-> NoError]
    ELSE LET r == createStakingValidator(Head(tmValidators), bondedAmt)
         IN  IF r.err # NoError
             THEN [val |-> <<>>, isNil |-> TRUE, err |-> r.err]
             ELSE StakingValidatorsLoop(Tail(tmValidators), bondedAmt,
                                        Append(stakingValidators, r.validator))

\* A failing validator skipped with `continue`: a partial list and the error.
RECURSIVE StakingValidatorsSkipLoop(_, _, _, _)
StakingValidatorsSkipLoop(tmValidators, bondedAmt, stakingValidators, err) ==
    IF tmValidators = <<>>
    THEN [val |-> stakingValidators, isNil |-> FALSE, err |-> err]
    ELSE LET r == createStakingValidator(Head(tmValidators), bondedAmt)
         IN  IF r.err # NoError
             THEN StakingValidatorsSkipLoop(Tail(tmValidators), bondedAmt,
                                            stakingValidators, r.err)
             ELSE StakingValidatorsSkipLoop(Tail(tmValidators), bondedAmt,
                                            Append(stakingValidators, r.validator), err)

createStakingValidatorsSkipping(tmValidators, bondedAmt) ==
    StakingValidatorsSkipLoop(tmValidators, bondedAmt, <<>>, NoError)

createStakingValidatorsFn(tmValidators, bondedAmt) ==
    StakingValidatorsLoop(tmValidators, bondedAmt, <<>>)

\* stakingtypes.NewDelegation(delegatorAddr, validatorAddr, shares)
NewDelegation(delegatorAddr, validatorAddr, shares) ==
    [DelegatorAddress |-> delegatorAddr, ValidatorAddress |-> validatorAddr,
     Shares |-> shares]

createDelegationsFn(tmValidators, fromAccount) ==
    [i \in DOMAIN tmValidators |->
        NewDelegation(AccString(fromAccount), ValString(tmValidators[i].Address),
                      LegacyOneDec)]

(***************************************************************************)
(* Genesis composers.  Each returns the caller's map after the call        *)
(* (genesisState), the map value it returns (isNil when it returns nil)    *)
(* and the error.                                                          *)
(***************************************************************************)
StakingModuleName == "staking"

AuthModuleName == "auth"

BankModuleName == "bank"

InflationModuleName == "inflation"

EVMModuleName == "evm"

\* evmosApp.AppCodec().MustMarshalJSON(msg): the JSON bytes of msg
MustMarshalJSON(msg) == [json |-> msg]

Returned(genesis) == [genesisState |-> genesis, map |-> genesis, isNil |-> FALSE, err |-> NoError]

Failed(genesis, err) == [genesisState |-> genesis, map |-> EmptyMap, isNil |-> TRUE, err |-> err]

\* stakingtypes.DefaultParams(); the default bond denomination "stake" is
\* denomination 0.
StakingDefaultParams ==
    [UnbondingTime |-> "504h", MaxValidators |-> 100, MaxEntries |-> 7,
     HistoricalEntries |-> 10000, BondDenom |-> 0, MinCommissionRate |-> LegacyZeroDec]

\* stakingtypes.NewGenesisState(params, validators, delegations)
StakingNewGenesisState(params, validators, delegations) ==
    [type |-> "*staking.GenesisState", Params |-> params,
     Validators |-> validators, Delegations |-> delegations]

\* The new validators appended to the section already in the map.
setStakingGenesisStateMerging(genesis, overwriteParams) ==
    LET stakingParams == [StakingDefaultParams EXCEPT !.BondDenom = overwriteParams.denom]
        old == IF StakingModuleName \in DOMAIN genesis
               THEN genesis[StakingModuleName].json.Validators ELSE <<>>
        stakingGenesis == StakingNewGenesisState(stakingParams,
                                                 old \o overwriteParams.validators,
                                                 overwriteParams.delegations)
    IN  Returned(MapSet(genesis, StakingModuleName, MustMarshalJSON(stakingGenesis)))

setStakingGenesisStateFn(genesis, overwriteParams) ==
    LET stakingParams == [StakingDefaultParams EXCEPT !.BondDenom = overwriteParams.denom]
        stakingGenesis == StakingNewGenesisState(stakingParams, overwriteParams.validators,
                                                 overwriteParams.delegations)
    IN  Returned(MapSet(genesis, StakingModuleName, MustMarshalJSON(stakingGenesis)))

\* authtypes.NewGenesisState(authtypes.DefaultParams(), genAccounts)
AuthDefaultParams ==
    [MaxMemoCharacters |-> 256, TxSigLimit |-> 7, TxSizeCostPerByte |-> 10,
     SigVerifyCostED25519 |-> 590, SigVerifyCostSecp256k1 |-> 1000]

AuthNewGenesisState(params, genAccounts) ==
    [type |-> "*auth.GenesisState", Params |-> params, Accounts |-> genAccounts]

setAuthGenesisStateFn(genesis, genAccounts) ==
    LET authGenesis == AuthNewGenesisState(AuthDefaultParams, genAccounts)
    IN  Returned(MapSet(genesis, AuthModuleName, MustMarshalJSON(authGenesis)))

\* banktypes.DefaultGenesisState().Params
BankDefaultParams == [DefaultSendEnabled |-> TRUE]

\* banktypes.NewGenesisState(params, balances, supply, denomMetaData, sendEnabled)
BankNewGenesisState(params, balances, supply, denomMetaData, sendEnabled) ==
    [type |-> "*bank.GenesisState", Params |-> params, Balances |-> balances,
     Supply |-> supply, DenomMetadata |-> denomMetaData, SendEnabled |-> sendEnabled]

\* The bank section stored under the auth module's key.
setBankGenesisStateWrongKey(genesis, overwriteParams) ==
    LET bankGenesis == BankNewGenesisState(BankDefaultParams, overwriteParams.balances,
                                           overwriteParams.totalSupply, <<>>, <<>>)
    IN  Returned(MapSet(genesis, AuthModuleName, MustMarshalJSON(bankGenesis)))

setBankGenesisStateFn(genesis, overwriteParams) ==
    LET bankGenesis == BankNewGenesisState(BankDefaultParams, overwriteParams.balances,
                                           overwriteParams.totalSupply, <<>>, <<>>)
    IN  Returned(MapSet(genesis, BankModuleName, MustMarshalJSON(bankGenesis)))

\* infltypes.DefaultParams()
InflationDefaultParams ==
    [MintDenom |-> "aevmos", ExponentialCalculation |-> "default",
     InflationDistribution |-> "default", EnableInflation |-> TRUE]

\* epochstypes.DayEpochID
DayEpochID == "day"

\* infltypes.NewGenesisState(params, period, epochIdentifier, epochsPerPeriod, skippedEpochs)
InflationNewGenesisState(params, period, epochIdentifier, epochsPerPeriod, skippedEpochs) ==
    [type |-> "*inflation.GenesisState", Params |-> params, Period |-> period,
     EpochIdentifier |-> epochIdentifier, EpochsPerPeriod |-> epochsPerPeriod,
     SkippedEpochs |-> skippedEpochs]

\* fmt.Errorf("invalid type %T for <module> genesis state", custGen)
InvalidType(custGen, module) ==
    [kind |-> "invalid type", type |-> custGen.type, module |-> module]

\* The default path without the line that disables inflation.
setInflationGenesisStateEnabled(genesis, customGenesis) ==
    LET found == InflationModuleName \in DOMAIN customGenesis
        custGen == customGenesis[InflationModuleName]
        defaultGen == InflationNewGenesisState(InflationDefaultParams, 0, DayEpochID, 365, 0)
    IN  IF ~found
        THEN Returned(MapSet(genesis, InflationModuleName, MustMarshalJSON(defaultGen)))
        ELSE IF custGen.type # "*inflation.GenesisState"
        THEN Failed(genesis, InvalidType(custGen, InflationModuleName))
        ELSE Returned(MapSet(genesis, InflationModuleName, MustMarshalJSON(custGen)))

setInflationGenesisStateFn(genesis, customGenesis) ==
    LET found == InflationModuleName \in DOMAIN customGenesis
        custGen == customGenesis[InflationModuleName]
        inflationParams == [InflationDefaultParams EXCEPT !.EnableInflation = FALSE]
        defaultGen == InflationNewGenesisState(inflationParams, 0, DayEpochID, 365, 0)
    IN  IF ~found
        THEN Returned(MapSet(genesis, InflationModuleName, MustMarshalJSON(defaultGen)))
        ELSE IF custGen.type # "*inflation.GenesisState"
        THEN Failed(genesis, InvalidType(custGen, InflationModuleName))
        ELSE Returned(MapSet(genesis, InflationModuleName, MustMarshalJSON(custGen)))

\* The type assertion's ok flag ignored: whatever the entry holds is stored.
setEVMGenesisStateUnchecked(genesis, customGenesis) ==
    LET found == EVMModuleName \in DOMAIN customGenesis
        custGen == customGenesis[EVMModuleName]
    IN  IF ~found
        THEN Returned(genesis)
        ELSE Returned(MapSet(genesis, EVMModuleName, MustMarshalJSON(custGen)))

\* A default EVM section written when no override is given, as the
\* inflation composer does.
setEVMGenesisStateDefaulting(genesis, customGenesis) ==
    LET found == EVMModuleName \in DOMAIN customGenesis
        custGen == customGenesis[EVMModuleName]
        defaultGen == [type |-> "*evm.GenesisState", Params |-> [EvmDenom |-> 0],
                       Accounts |-> <<>>]
    IN  IF ~found
        THEN Returned(MapSet(genesis, EVMModuleName, MustMarshalJSON(defaultGen)))
        ELSE IF custGen.type # "*evm.GenesisState"
        THEN Failed(genesis, InvalidType(custGen, EVMModuleName))
        ELSE Returned(MapSet(genesis, EVMModuleName, MustMarshalJSON(custGen)))

setEVMGenesisStateFn(genesis, customGenesis) ==
    LET found == EVMModuleName \in DOMAIN customGenesis
        custGen == customGenesis[EVMModuleName]
    IN  IF ~found
        THEN Returned(genesis)
        ELSE IF custGen.type # "*evm.GenesisState"
        THEN Failed(genesis, InvalidType(custGen, EVMModuleName))
        ELSE Returned(MapSet(genesis, EVMModuleName, MustMarshalJSON(custGen)))

(***************************************************************************)
(* createEvmosApp: the application whose codec serializes the sections.    *)
(***************************************************************************)
createEvmosAppFn(chainID) ==
    [chainID |-> chainID, db |-> "memdb", logger |-> "nop", loadLatest |-> TRUE,
     invCheckPeriod |-> 5]

(***************************************************************************)
(* Inputs.                                                                 *)
(***************************************************************************)
ChainIDs == {"evmos_9000-1", "evmos_9001-1"}

Coin == [Denom : Denoms, Amount : Amounts]

\* Valid sdktypes.Coins values: sorted, one coin per denomination, no zero coin.
ValidCoins ==
    {SortCoins({[Denom |-> d, Amount |-> f[d]] : d \in {x \in Denoms : f[x] # 0}}) :
        f \in [Denoms -> Amounts]}

\* Balance entries: validated coin sets, and the one-coin sets that
\* addBondedModuleAccountToFundedBalances builds unvalidated (a zero coin).
Balances ==
    {[Address |-> AccString(a), Coins |-> c] :
        a \in AccAddresses,
        c \in ValidCoins \cup {<<z>> : z \in {x \in Coin : x.Amount = 0}}}

\* Consensus validators as cmttypes.NewValidator builds them, over the key
\* types a consensus public key can have.
TmValidators == {NewValidator([type |-> t, key |-> k], 1) : t \in KeyTypes, k \in {3, 5}}

BondedAmounts == {1, 2}

PureCalls ==
    UNION {{[fn |-> "createValidatorSetAndSigners", numberOfValidators |-> n, seeds |-> s] :
                s \in FreshSeeds(n)} : n \in 0..MaxValidators}
    \cup {[fn |-> "createGenesisAccounts", accounts |-> a] :
            a \in SeqsUpTo(AccAddresses, MaxAccounts)}
    \cup {[fn |-> "createBalances", accounts |-> a, coin |-> c] :
            a \in SeqsUpTo(AccAddresses, MaxAccounts), c \in Coin}
    \cup {[fn |-> "createEvmosApp", chainID |-> c] : c \in ChainIDs}
    \cup {[fn |-> "createStakingValidators", tmValidators |-> v, bondedAmt |-> b] :
            v \in SeqsUpTo(TmValidators, MaxValidators), b \in BondedAmounts}
    \cup {[fn |-> "createDelegations", tmValidators |-> v, fromAccount |-> a] :
            v \in SeqsUpTo(TmValidators, MaxValidators), a \in AccAddresses}
    \cup {[fn |-> "calculateTotalSupply", fundedAccountsBalances |-> b] :
            b \in SeqsUpTo(Balances, MaxBalances)}
    \cup {[fn |-> "addBondedModuleAccountToFundedBalances",
           fundedAccountsBalances |-> b, totalBonded |-> c] :
            b \in SeqsUpTo(Balances, MaxBalances), c \in Coin}

\* Inputs of the composers.
GoodValidator == NewValidator([type |-> "ed25519", key |-> 3], 1)

StakingOverrides ==
    {[denom |-> d,
      validators |-> createStakingValidatorsFn(v, 1).val,
      delegations |-> createDelegationsFn(v, 1)] :
        d \in Denoms, v \in {<<>>, <<GoodValidator>>}}

GenAccountLists == {createGenesisAccountsFn(a) : a \in {<<>>, <<1, 2>>}}

BankOverrides ==
    {[totalSupply |-> calculateTotalSupplyFn(b), balances |-> b] :
        b \in {<<>>, createBalancesFn(<<1, 2>>, [Denom |-> 1, Amount |-> 2])}}

InflationOverrides ==
    {InflationNewGenesisState([InflationDefaultParams EXCEPT !.EnableInflation = e],
                              p, "week", 52, p) : e \in {TRUE}, p \in {1, 2}}

EVMOverrides ==
    {[type |-> "*evm.GenesisState", Params |-> [EvmDenom |-> d], Accounts |-> <<>>] :
        d \in Denoms}

NilValue == [type |-> "<nil>"]

\* A CustomGenesisState: module name -> interface value, every key optional.
CustomGenesisStates ==
    LET inflEntries == InflationOverrides \cup {CHOOSE x \in EVMOverrides : TRUE}
        evmEntries == EVMOverrides \cup {NilValue}
    IN  {EmptyMap}
        \cup {MapSet(EmptyMap, InflationModuleName, i) : i \in inflEntries}
        \cup {MapSet(EmptyMap, EVMModuleName, e) : e \in evmEntries}
        \cup {MapSet(MapSet(EmptyMap, InflationModuleName, i), EVMModuleName, e) :
                i \in inflEntries, e \in evmEntries}

(***************************************************************************)
(* Actions.  A run is one use of the file: either one call of a builder on *)
(* the input drawn in Init, or a sequence of composer calls threading the  *)
(* genesis map.                                                            *)
(***************************************************************************)
Call(fn) == op = "init" /\ args.fn = fn /\ op' = fn

Pure == UNCHANGED <<genesisState, before, args>>

createValidatorSetAndSigners ==
    /\ Call("createValidatorSetAndSigners")
    /\ LET r == createValidatorSetAndSignersFn(args.numberOfValidators, args.seeds)
       IN  /\ ret' = [valSet |-> r.valSet, signers |-> r.signers, err |-> NoError]
           /\ swallowed' = (swallowed \/ r.dropped)
    /\ Pure

createGenesisAccounts ==
    /\ Call("createGenesisAccounts")
    /\ ret' = [val |-> createGenesisAccountsFn(args.accounts), err |-> NoError]
    /\ Pure /\ UNCHANGED swallowed

createBalances ==
    /\ Call("createBalances")
    /\ ret' = [val |-> createBalancesFn(args.accounts, args.coin), err |-> NoError]
    /\ Pure /\ UNCHANGED swallowed

createEvmosApp ==
    /\ Call("createEvmosApp")
    /\ ret' = [val |-> createEvmosAppFn(args.chainID), err |-> NoError]
    /\ Pure /\ UNCHANGED swallowed

createStakingValidators ==
    /\ Call("createStakingValidators")
    /\ ret' = createStakingValidatorsFn(args.tmValidators, args.bondedAmt)
    /\ Pure /\ UNCHANGED swallowed

createDelegations ==
    /\ Call("createDelegations")
    /\ ret' = [val |-> createDelegationsFn(args.tmValidators, args.fromAccount),
               err |-> NoError]
    /\ Pure /\ UNCHANGED swallowed

calculateTotalSupply ==
    /\ Call("calculateTotalSupply")
    /\ ret' = [val |-> calculateTotalSupplyFn(args.fundedAccountsBalances), err |-> NoError]
    /\ Pure /\ UNCHANGED swallowed

addBondedModuleAccountToFundedBalances ==
    /\ Call("addBondedModuleAccountToFundedBalances")
    /\ ret' = [val |-> addBondedModuleAccountToFundedBalancesFn(
                           args.fundedAccountsBalances, args.totalBonded),
               err |-> NoError]
    /\ Pure /\ UNCHANGED swallowed

ComposerNames ==
    {"setStakingGenesisState", "setAuthGenesisState", "setBankGenesisState",
     "setInflationGenesisState", "setEVMGenesisState"}

Composing == args.fn \in ComposerNames \cup {"compose"}

\* A composer call: r is the composer's result on the caller's map.
Compose(fn, in, r) ==
    /\ op' = fn
    /\ args' = in
    /\ before' = genesisState
    /\ genesisState' = r.genesisState
    /\ ret' = [map |-> r.map, isNil |-> r.isNil, err |-> r.err]
    /\ UNCHANGED swallowed

setStakingGenesisState ==
    /\ Composing
    /\ \E o \in StakingOverrides :
        Compose("setStakingGenesisState",
                [fn |-> "setStakingGenesisState", overwriteParams |-> o],
                setStakingGenesisStateFn(genesisState, o))

setAuthGenesisState ==
    /\ Composing
    /\ \E a \in GenAccountLists :
        Compose("setAuthGenesisState",
                [fn |-> "setAuthGenesisState", genAccounts |-> a],
                setAuthGenesisStateFn(genesisState, a))

setBankGenesisState ==
    /\ Composing
    /\ \E o \in BankOverrides :
        Compose("setBankGenesisState",
                [fn |-> "setBankGenesisState", overwriteParams |-> o],
                setBankGenesisStateFn(genesisState, o))

setInflationGenesisState ==
    /\ Composing
    /\ \E c \in CustomGenesisStates :
        Compose("setInflationGenesisState",
                [fn |-> "setInflationGenesisState", customGenesis |-> c],
                setInflationGenesisStateFn(genesisState, c))

setEVMGenesisState ==
    /\ Composing
    /\ \E c \in CustomGenesisStates :
        Compose("setEVMGenesisState",
                [fn |-> "setEVMGenesisState", customGenesis |-> c],
                setEVMGenesisStateFn(genesisState, c))

Init ==
    /\ genesisState = EmptyMap
    /\ before = EmptyMap
    /\ op = "init"
    /\ args \in PureCalls \cup {[fn |-> "compose"]}
    /\ ret = [err |-> NoError]
    /\ swallowed = FALSE

Next ==
    \/ createValidatorSetAndSigners
    \/ createGenesisAccounts
    \/ createBalances
    \/ createEvmosApp
    \/ createStakingValidators
    \/ createDelegations
    \/ calculateTotalSupply
    \/ addBondedModuleAccountToFundedBalances
    \/ setStakingGenesisState
    \/ setAuthGenesisState
    \/ setBankGenesisState
    \/ setInflationGenesisState
    \/ setEVMGenesisState

Spec == Init /\ [][Next]_vars

(***************************************************************************)
(* Properties.                                                             *)
(***************************************************************************)
Indices(seq) == DOMAIN seq

\* C1: createValidatorSetAndSigners(N) returns a validator set of exactly N
\* validators, each of voting power 1, and a signer map of exactly N entries
\* whose keys are exactly the validators' address strings, each mapping to
\* the signer whose public key made that validator; N = 0 gives an empty
\* set and an empty map.
C1_ValidatorFactory ==
    op = "createValidatorSetAndSigners" =>
        LET n == args.numberOfValidators
            vals == ret.valSet.Validators
            signers == ret.signers
        IN  /\ ret.err = NoError
            /\ Len(vals) = n
            /\ \A i, j \in Indices(vals) : i # j => vals[i].Address # vals[j].Address
            /\ \A i \in Indices(vals) : vals[i].VotingPower = 1
            /\ Cardinality(DOMAIN signers) = n
            /\ DOMAIN signers = {HexString(vals[i].Address) : i \in Indices(vals)}
            /\ \A i \in Indices(vals) :
                  LET signer == signers[HexString(vals[i].Address)]
                  IN  /\ PubKeyOf(signer.PrivKey) = vals[i].PubKey
                      /\ AddressOf(PubKeyOf(signer.PrivKey)) = vals[i].Address
            /\ n = 0 => vals = <<>> /\ signers = EmptyMap

C1_Witness ==
    /\ op = "createValidatorSetAndSigners"
    /\ args.numberOfValidators >= 2
    /\ Len(ret.valSet.Validators) = args.numberOfValidators

\* The sum of one denomination over a balance list, entry by entry.
RECURSIVE DenomTotal(_, _)
DenomTotal(balances, denom) ==
    IF balances = <<>> THEN 0
    ELSE AmountOf(Head(balances).Coins, denom) + DenomTotal(Tail(balances), denom)

Permuted(seq) ==
    {[i \in DOMAIN seq |-> seq[p[i]]] :
        p \in {f \in [DOMAIN seq -> DOMAIN seq] : \A i, j \in DOMAIN seq : i # j => f[i] # f[j]}}

\* C2: calculateTotalSupply returns, for every denomination, the sum of that
\* denomination's amounts over all balance entries (the empty coin set for
\* the empty list), and the same result for every permutation of the list.
C2_TotalSupply ==
    op = "calculateTotalSupply" =>
        LET balances == args.fundedAccountsBalances
            total == ret.val
        IN  /\ ret.err = NoError
            /\ \A i, j \in Indices(total) : i # j => total[i].Denom # total[j].Denom
            /\ \A i \in Indices(total) : total[i].Denom \in Denoms
            /\ \A d \in Denoms : AmountOf(total, d) = DenomTotal(balances, d)
            /\ balances = <<>> => total = <<>>
            /\ \A q \in Permuted(balances) : calculateTotalSupplyFn(q) = total

C2_Witness ==
    /\ op = "calculateTotalSupply"
    /\ Len(args.fundedAccountsBalances) >= 2
    /\ args.fundedAccountsBalances[1] # args.fundedAccountsBalances[2]
    /\ Len(ret.val) = 2
    /\ \E d \in Denoms :
          /\ AmountOf(args.fundedAccountsBalances[1].Coins, d) > 0
          /\ AmountOf(args.fundedAccountsBalances[2].Coins, d) > 0

\* C3: addBondedModuleAccountToFundedBalances(B, c) returns B, unchanged and
\* in order, followed by one entry addressed to the bonded-pool module
\* account holding exactly {c}; the total supply of the result is the total
\* supply of B plus c: c's denomination rises by c's amount, every other
\* denomination is unchanged.
C3_BondedPoolAppended ==
    op = "addBondedModuleAccountToFundedBalances" =>
        LET balances == args.fundedAccountsBalances
            c == args.totalBonded
            out == ret.val
        IN  /\ ret.err = NoError
            /\ Len(out) = Len(balances) + 1
            /\ SubSeq(out, 1, Len(balances)) = balances
            /\ out[Len(out)].Address = BondedPoolAddress
            /\ out[Len(out)].Coins = <<c>>
            /\ \A a \in AccAddresses : AccString(a) # out[Len(out)].Address
            /\ calculateTotalSupplyFn(out) = CoinsAdd(calculateTotalSupplyFn(balances), <<c>>)
            /\ \A d \in Denoms :
                  AmountOf(calculateTotalSupplyFn(out), d)
                    = AmountOf(calculateTotalSupplyFn(balances), d)
                      + (IF d = c.Denom THEN c.Amount ELSE 0)

C3_Witness ==
    /\ op = "addBondedModuleAccountToFundedBalances"
    /\ Len(args.fundedAccountsBalances) >= 2
    /\ args.fundedAccountsBalances[1] # args.fundedAccountsBalances[2]
    /\ args.totalBonded.Amount > 0
    /\ AmountOf(calculateTotalSupplyFn(args.fundedAccountsBalances), args.totalBonded.Denom) > 0
    /\ Len(ret.val) = Len(args.fundedAccountsBalances) + 1

Converts(tmValidator) == tmValidator.PubKey.type \in {"ed25519", "secp256k1"}

\* C9: if every public key converts, createStakingValidators(V, a) returns
\* len(V) records in the order of V, the i-th with the operator address of
\* V[i], bonded, not jailed, tokens a, shares 1.0, zero commission and zero
\* min self-delegation; otherwise it returns the first conversion error and
\* no list.  createDelegations(V, d) returns len(V) delegations in the order
\* of V, the i-th from d to V[i]'s operator address with shares 1.0.
C9_StakingRecords ==
    /\ op = "createStakingValidators" =>
          LET V == args.tmValidators
          IN  IF \A i \in Indices(V) : Converts(V[i])
              THEN /\ ret.err = NoError
                   /\ ~ret.isNil
                   /\ Len(ret.val) = Len(V)
                   /\ \A i \in Indices(V) :
                         /\ ret.val[i].OperatorAddress = ValString(V[i].Address)
                         /\ ret.val[i].ConsensusPubkey.value = V[i].PubKey
                         /\ ret.val[i].Status = "BOND_STATUS_BONDED"
                         /\ ret.val[i].Jailed = FALSE
                         /\ ret.val[i].Tokens = args.bondedAmt
                         /\ ret.val[i].DelegatorShares = [dec |-> 1]
                         /\ ret.val[i].Commission
                              = [Rate |-> [dec |-> 0], MaxRate |-> [dec |-> 0],
                                 MaxChangeRate |-> [dec |-> 0]]
                         /\ ret.val[i].MinSelfDelegation = 0
              ELSE LET first == CHOOSE i \in Indices(V) :
                                    /\ ~Converts(V[i])
                                    /\ \A j \in 1..(i - 1) : Converts(V[j])
                   IN  /\ ret.isNil
                       /\ ret.val = <<>>
                       /\ ret.err = [kind |-> "convert", key |-> V[first].PubKey]
    /\ op = "createDelegations" =>
          LET V == args.tmValidators
          IN  /\ ret.err = NoError
              /\ Len(ret.val) = Len(V)
              /\ \A i \in Indices(V) :
                    ret.val[i] = [DelegatorAddress |-> AccString(args.fromAccount),
                                  ValidatorAddress |-> ValString(V[i].Address),
                                  Shares |-> [dec |-> 1]]

C9_Witness ==
    /\ op = "createStakingValidators"
    /\ Len(args.tmValidators) >= 2
    /\ Converts(args.tmValidators[1])
    /\ ~Converts(args.tmValidators[2])
    /\ ret.isNil
    /\ ret.err # NoError

Found(module) == module \in DOMAIN args.customGenesis

\* C4: for setInflationGenesisState and setEVMGenesisState, an entry under
\* the module's name that is not of the module's genesis type makes the call
\* fail with a type-mismatch error; an entry of the expected type makes it
\* succeed with the module's section being the serialization of exactly
\* that override.
C4_TypedOverride ==
    /\ (op = "setInflationGenesisState" /\ Found("inflation")) =>
          LET custGen == args.customGenesis["inflation"]
          IN  IF custGen.type = "*inflation.GenesisState"
              THEN /\ ret.err = NoError
                   /\ ~ret.isNil
                   /\ ret.map = genesisState
                   /\ genesisState["inflation"] = [json |-> custGen]
              ELSE /\ ret.err = [kind |-> "invalid type", type |-> custGen.type,
                                 module |-> "inflation"]
                   /\ ret.isNil
    /\ (op = "setEVMGenesisState" /\ Found("evm")) =>
          LET custGen == args.customGenesis["evm"]
          IN  IF custGen.type = "*evm.GenesisState"
              THEN /\ ret.err = NoError
                   /\ ~ret.isNil
                   /\ ret.map = genesisState
                   /\ genesisState["evm"] = [json |-> custGen]
              ELSE /\ ret.err = [kind |-> "invalid type", type |-> custGen.type,
                                 module |-> "evm"]
                   /\ ret.isNil

C4_Witness ==
    /\ op = "setEVMGenesisState"
    /\ Found("evm")
    /\ args.customGenesis["evm"].type # "*evm.GenesisState"
    /\ ret.err # NoError
    /\ "evm" \in DOMAIN genesisState

\* C5: with no inflation entry in the custom genesis map,
\* setInflationGenesisState succeeds and sets the inflation section to a
\* genesis with inflation disabled, zero skipped epochs, the "day" epoch
\* identifier and 365 epochs per period, every other parameter at its
\* default, whatever the map held for the module before.
C5_InflationDefault ==
    (op = "setInflationGenesisState" /\ ~Found("inflation")) =>
        /\ ret.err = NoError
        /\ ~ret.isNil
        /\ "inflation" \in DOMAIN genesisState
        /\ LET section == genesisState["inflation"].json
           IN  /\ section.Params.EnableInflation = FALSE
               /\ section.SkippedEpochs = 0
               /\ section.EpochIdentifier = "day"
               /\ section.EpochsPerPeriod = 365
               /\ section.Period = 0
               /\ \A f \in (DOMAIN section.Params) \ {"EnableInflation"} :
                     section.Params[f] = InflationDefaultParams[f]

C5_Witness ==
    /\ op = "setInflationGenesisState"
    /\ ~Found("inflation")
    /\ "inflation" \in DOMAIN before
    /\ before["inflation"] # genesisState["inflation"]
    /\ genesisState["inflation"].json.EpochsPerPeriod = 365

\* C6: after two successive setStakingGenesisState calls with overrides S1
\* then S2, the staking section is the one a single call with S2 makes on a
\* fresh map: S2's bond denomination, validators and delegations only; the
\* same override twice equals once.
C6_StakingOverwrite ==
    [][(op = "setStakingGenesisState" /\ op' = "setStakingGenesisState") =>
          LET S2 == args'.overwriteParams
              section == genesisState'["staking"].json
          IN  /\ genesisState'["staking"]
                   = setStakingGenesisStateFn(EmptyMap, S2).genesisState["staking"]
              /\ section.Params.BondDenom = S2.denom
              /\ section.Validators = S2.validators
              /\ section.Delegations = S2.delegations
              /\ (args' = args => genesisState' = genesisState)]_vars

C6_Witness ==
    /\ op = "setStakingGenesisState"
    /\ "staking" \in DOMAIN before
    /\ Len(before["staking"].json.Validators) = 1
    /\ Len(args.overwriteParams.validators) = 1
    /\ before["staking"] # genesisState["staking"]
    /\ Len(genesisState["staking"].json.Validators) = 1

\* C7: with no EVM entry in the custom genesis map, setEVMGenesisState
\* returns the same genesis map with no error and every entry unchanged: no
\* EVM section is added, one already present is neither altered nor removed.
C7_EVMNoOverride ==
    (op = "setEVMGenesisState" /\ ~Found("evm")) =>
        /\ ret.err = NoError
        /\ ~ret.isNil
        /\ genesisState = before
        /\ ret.map = before

C7_Witness ==
    /\ op = "setEVMGenesisState"
    /\ ~Found("evm")
    /\ "evm" \in DOMAIN genesisState
    /\ genesisState = before

\* C8: an error arises in exactly two situations: a public-key conversion
\* failure while building staking validators, and a wrong-typed override in
\* the inflation or EVM composer; every other operation completes without an
\* error, and no failure is dropped without being reported.
C8_ErrorSources ==
    /\ swallowed = FALSE
    /\ op # "init" =>
          /\ ret.err # NoError <=>
                \/ /\ op = "createStakingValidators"
                   /\ \E i \in Indices(args.tmValidators) : ~Converts(args.tmValidators[i])
                \/ /\ op = "setInflationGenesisState"
                   /\ Found("inflation")
                   /\ args.customGenesis["inflation"].type # "*inflation.GenesisState"
                \/ /\ op = "setEVMGenesisState"
                   /\ Found("evm")
                   /\ args.customGenesis["evm"].type # "*evm.GenesisState"
          /\ ret.err # NoError =>
                IF op = "createStakingValidators"
                THEN ret.err.kind = "convert"
                ELSE ret.err.kind = "invalid type"

C8_Witness ==
    /\ op = "createStakingValidators"
    /\ ret.err # NoError
    /\ ret.err.kind = "convert"
    /\ swallowed = FALSE

OwnModule(fn) ==
    CASE fn = "setStakingGenesisState" -> "staking"
      [] fn = "setAuthGenesisState" -> "auth"
      [] fn = "setBankGenesisState" -> "bank"
      [] fn = "setInflationGenesisState" -> "inflation"
      [] fn = "setEVMGenesisState" -> "evm"

\* The composer call `call` applied to the map g.
Run(call, g) ==
    CASE call.fn = "setStakingGenesisState" -> setStakingGenesisStateFn(g, call.overwriteParams)
      [] call.fn = "setAuthGenesisState" -> setAuthGenesisStateFn(g, call.genAccounts)
      [] call.fn = "setBankGenesisState" -> setBankGenesisStateFn(g, call.overwriteParams)
      [] call.fn = "setInflationGenesisState" -> setInflationGenesisStateFn(g, call.customGenesis)
      [] call.fn = "setEVMGenesisState" -> setEVMGenesisStateFn(g, call.customGenesis)

ComposerCalls ==
    {[fn |-> "setStakingGenesisState", overwriteParams |-> o] : o \in StakingOverrides}
    \cup {[fn |-> "setAuthGenesisState", genAccounts |-> a] : a \in GenAccountLists}
    \cup {[fn |-> "setBankGenesisState", overwriteParams |-> o] : o \in BankOverrides}
    \cup {[fn |-> "setInflationGenesisState", customGenesis |-> c] : c \in CustomGenesisStates}
    \cup {[fn |-> "setEVMGenesisState", customGenesis |-> c] : c \in CustomGenesisStates}

====
